---------------------------- MODULE Spec2Model ----------------------------
(***************************************************************************)
(* A model of final.py, the Streamlit lead-scoring / email-generation      *)
(* tool: the lead-data parser (parse_lead_data), the scoring prompt        *)
(* builder (process_leads), the three functions that call the remote       *)
(* model (validate_api_key, get_openai_response,                           *)
(* generate_personalized_emails) and the script main(), which Streamlit    *)
(* reruns from top to bottom on every widget interaction.                  *)
(*                                                                         *)
(* Text is a sequence of one-character strings.  Python values are tagged  *)
(* records; every tag has its own payload field so that two values of      *)
(* different Python types are simply unequal.                              *)
(***************************************************************************)
EXTENDS Integers, Sequences, FiniteSets, TLC

(***************************************************************************)
(* Bounds of the model.                                                    *)
(***************************************************************************)
\* longest arbitrary text handed to parse_lead_data
MaxLen == 3
\* most records in a serialized sequence of mappings / rows in a DataFrame
MaxRecords == 2

(***************************************************************************)
(* Characters.                                                             *)
(***************************************************************************)
NL == "\n"
TAB == "\t"
QT == "\""
SP == " "

\* json.decoder.WHITESPACE_STR, also what str.strip() removes here
WHITESPACE == {SP, TAB, NL, "\r"}
\* characters below 0x20, which a strict JSON string may not contain
CONTROL == {TAB, NL, "\r"}
Digits == {"0", "1", "2", "3", "4", "5", "6", "7", "8", "9"}

DigitVal(c) ==
    CASE c = "0" -> 0 [] c = "1" -> 1 [] c = "2" -> 2 [] c = "3" -> 3
      [] c = "4" -> 4 [] c = "5" -> 5 [] c = "6" -> 6 [] c = "7" -> 7
      [] c = "8" -> 8 [] c = "9" -> 9

DigitChar(d) ==
    CASE d = 0 -> "0" [] d = 1 -> "1" [] d = 2 -> "2" [] d = 3 -> "3"
      [] d = 4 -> "4" [] d = 5 -> "5" [] d = 6 -> "6" [] d = 7 -> "7"
      [] d = 8 -> "8" [] d = 9 -> "9"

(***************************************************************************)
(* Python values.                                                          *)
(***************************************************************************)
PyNone == [type |-> "NoneType"]
PyInt(n) == [type |-> "int", int |-> n]
PyFloat(n) == [type |-> "float", whole |-> n]
PyNaN == [type |-> "float", nan |-> TRUE]
PyStr(s) == [type |-> "str", chars |-> s]
PyList(xs) == [type |-> "list", elems |-> xs]
\* a pandas Timestamp, as read_excel makes of a date cell: no JSON type
PyTimestamp == [type |-> "Timestamp"]
\* a dict keeps insertion order: a sequence of <<key, value>>, keys distinct
PyDict(kvs) == [type |-> "dict", items |-> kvs]

IsNaN(v) == v.type = "float" /\ "nan" \in DOMAIN v

\* isinstance(v, list) / isinstance(v, dict)
IsList(v) == v.type = "list"
IsDict(v) == v.type = "dict"

\* d[k] = v on an insertion-ordered dict: a new key is appended, an existing
\* key keeps its place and takes the new value
DictSet(kvs, k, v) ==
    IF \E i \in 1..Len(kvs) : kvs[i][1] = k
    THEN [i \in 1..Len(kvs) |-> IF kvs[i][1] = k THEN <<k, v>> ELSE kvs[i]]
    ELSE Append(kvs, <<k, v>>)

(***************************************************************************)
(* Sequence helpers.                                                       *)
(***************************************************************************)
\* str(n) for n >= 0
RECURSIVE IntToStr(_)
IntToStr(n) ==
    IF n < 10 THEN <<DigitChar(n)>>
    ELSE Append(IntToStr(n \div 10), DigitChar(n % 10))

Repeat(c, n) == [i \in 1..n |-> c]

\* all sequences over S of length at most n
SeqsUpTo(S, n) == UNION {[1..k -> S] : k \in 0..n}


Min(S) == CHOOSE x \in S : \A y \in S : x <= y

\* s[i:].startswith(lit)
StartsWith(s, i, lit) ==
    /\ i + Len(lit) - 1 <= Len(s)
    /\ \A k \in 1..Len(lit) : s[i + k - 1] = lit[k]

(***************************************************************************)
(* json.loads, as json.decoder / json.scanner compute it.  Indices are     *)
(* 1-based; a scan returns the value and the index after it.  The texts of *)
(* the model hold no backslash, no '.', no exponent and no "Infinity", so  *)
(* string escapes and non-integer numbers are not scanned.                 *)
(***************************************************************************)
JsonFail == [ok |-> FALSE, val |-> PyNone, end |-> 0]
JsonOk(v, e) == [ok |-> TRUE, val |-> v, end |-> e]

\* WHITESPACE.match(s, i).end(): the first index from i on holding no whitespace
SkipWs(s, i) ==
    CHOOSE j \in i..(Len(s) + 1) :
        /\ \A k \in i..(j - 1) : s[k] \in WHITESPACE
        /\ (j = Len(s) + 1 \/ s[j] \notin WHITESPACE)

\* py_scanstring with strict=True, i the index after the opening quote: the
\* string ends at the next quote; a control character before it is an error
scanstring(s, i) ==
    LET stops == {j \in i..Len(s) : s[j] \in ({QT} \cup CONTROL)}
    IN  IF stops = {} THEN JsonFail
        ELSE IF s[Min(stops)] = QT
             THEN JsonOk(PyStr(SubSeq(s, i, Min(stops) - 1)), Min(stops) + 1)
             ELSE JsonFail

\* NUMBER_RE.match(s, i): -?(0|[1-9][0-9]*); the index after the match, or i
NumberEnd(s, i) ==
    LET d == IF i <= Len(s) /\ s[i] = "-" THEN i + 1 ELSE i
    IN  IF d > Len(s) \/ s[d] \notin Digits THEN i
        ELSE IF s[d] = "0" THEN d + 1
        ELSE CHOOSE j \in (d + 1)..(Len(s) + 1) :
                /\ \A k \in d..(j - 1) : s[k] \in Digits
                /\ (j = Len(s) + 1 \/ s[j] \notin Digits)

\* int(text) for a text matched by NUMBER_RE
RECURSIVE DigitsToInt(_)
DigitsToInt(ds) ==
    IF ds = <<>> THEN 0
    ELSE 10 * DigitsToInt(SubSeq(ds, 1, Len(ds) - 1)) + DigitVal(ds[Len(ds)])

StrToInt(t) ==
    IF Head(t) = "-" THEN 0 - DigitsToInt(Tail(t)) ELSE DigitsToInt(t)

RECURSIVE scan_once(_, _), ObjectPairs(_, _, _), ArrayItems(_, _, _)

\* JSONObject, i the index after '{'
JSONObject(s, i) ==
    LET k == SkipWs(s, i)
    IN  IF k > Len(s) THEN JsonFail
        ELSE IF s[k] = "}" THEN JsonOk(PyDict(<<>>), k + 1)
        ELSE IF s[k] # QT THEN JsonFail
        ELSE ObjectPairs(s, k + 1, <<>>)

\* the loop of JSONObject, i the index after the opening quote of a key
ObjectPairs(s, i, acc) ==
    LET key == scanstring(s, i)
    IN  IF ~key.ok THEN JsonFail
        ELSE
        LET c == SkipWs(s, key.end)
        IN  IF c > Len(s) \/ s[c] # ":" THEN JsonFail
            ELSE
            LET v == scan_once(s, SkipWs(s, c + 1))
            IN  IF ~v.ok THEN JsonFail
                ELSE
                LET acc2 == DictSet(acc, key.val.chars, v.val)
                    e == SkipWs(s, v.end)
                IN  IF e > Len(s) THEN JsonFail
                    ELSE IF s[e] = "}" THEN JsonOk(PyDict(acc2), e + 1)
                    ELSE IF s[e] # "," THEN JsonFail
                    ELSE
                    LET q == SkipWs(s, e + 1)
                    IN  IF q > Len(s) \/ s[q] # QT THEN JsonFail
                        ELSE ObjectPairs(s, q + 1, acc2)

\* JSONArray, i the index after '['
JSONArray(s, i) ==
    LET k == SkipWs(s, i)
    IN  IF k > Len(s) THEN JsonFail
        ELSE IF s[k] = "]" THEN JsonOk(PyList(<<>>), k + 1)
        ELSE ArrayItems(s, k, <<>>)

\* the loop of JSONArray, i the index where the next element starts
ArrayItems(s, i, acc) ==
    LET v == scan_once(s, i)
    IN  IF ~v.ok THEN JsonFail
        ELSE
        LET e == SkipWs(s, v.end)
        IN  IF e > Len(s) THEN JsonFail
            ELSE IF s[e] = "]" THEN JsonOk(PyList(Append(acc, v.val)), e + 1)
            ELSE IF s[e] # "," THEN JsonFail
            ELSE ArrayItems(s, SkipWs(s, e + 1), Append(acc, v.val))

\* json.scanner.py_make_scanner._scan_once
scan_once(s, i) ==
    IF i > Len(s) THEN JsonFail
    ELSE IF s[i] = QT THEN scanstring(s, i + 1)
    ELSE IF s[i] = "{" THEN JSONObject(s, i + 1)
    ELSE IF s[i] = "[" THEN JSONArray(s, i + 1)
    ELSE IF StartsWith(s, i, <<"n", "u", "l", "l">>) THEN JsonOk(PyNone, i + 4)
    ELSE IF StartsWith(s, i, <<"N", "a", "N">>) THEN JsonOk(PyNaN, i + 3)
    ELSE IF NumberEnd(s, i) > i
         THEN JsonOk(PyInt(StrToInt(SubSeq(s, i, NumberEnd(s, i) - 1))),
                     NumberEnd(s, i))
    ELSE JsonFail

Raised == [raised |-> TRUE, value |-> PyNone]
Returned(v) == [raised |-> FALSE, value |-> v]

\* json.loads(s): JSONDecoder.decode; text after the value is "Extra data"
json_loads(s) ==
    LET v == scan_once(s, SkipWs(s, 1))
    IN  IF ~v.ok THEN Raised
        ELSE IF SkipWs(s, v.end) # Len(s) + 1 THEN Raised
        ELSE Returned(v.val)

(***************************************************************************)
(* json.dumps(obj) and json.dumps(obj, indent=2).  indent is PyNone or a   *)
(* PyInt.  Strings of the model hold no character that dumps would escape. *)
(***************************************************************************)
\* the line break and indentation json.encoder puts before an item
NewlineIndent(indent, level) ==
    IF indent = PyNone THEN <<>> ELSE <<NL>> \o Repeat(SP, indent.int * level)

ItemSeparator(indent, level) ==
    IF indent = PyNone THEN <<",", SP>> ELSE <<",">> \o NewlineIndent(indent, level)

RECURSIVE JoinItems(_, _)
JoinItems(parts, sep) ==
    IF Len(parts) = 1 THEN parts[1]
    ELSE parts[1] \o sep \o JoinItems(Tail(parts), sep)

RECURSIVE dumps_level(_, _, _)
dumps_level(v, indent, level) ==
    IF v.type = "NoneType" THEN <<"n", "u", "l", "l">>
    ELSE IF v.type = "int"
         THEN IF v.int < 0 THEN <<"-">> \o IntToStr(0 - v.int) ELSE IntToStr(v.int)
    ELSE IF v.type = "float"
         THEN IF IsNaN(v) THEN <<"N", "a", "N">> ELSE IntToStr(v.whole) \o <<".", "0">>
    ELSE IF v.type = "str" THEN <<QT>> \o v.chars \o <<QT>>
    ELSE IF v.type = "list"
         THEN IF v.elems = <<>> THEN <<"[", "]">>
              ELSE <<"[">> \o NewlineIndent(indent, level + 1)
                   \o JoinItems([i \in 1..Len(v.elems) |->
                                    dumps_level(v.elems[i], indent, level + 1)],
                                ItemSeparator(indent, level + 1))
                   \o NewlineIndent(indent, level) \o <<"]">>
    ELSE IF v.items = <<>> THEN <<"{", "}">>
         ELSE <<"{">> \o NewlineIndent(indent, level + 1)
              \o JoinItems([i \in 1..Len(v.items) |->
                               <<QT>> \o v.items[i][1] \o <<QT, ":", SP>>
                               \o dumps_level(v.items[i][2], indent, level + 1)],
                           ItemSeparator(indent, level + 1))
              \o NewlineIndent(indent, level) \o <<"}">>

json_dumps(obj, indent) == dumps_level(obj, indent, 0)

\* json.dumps raises TypeError on a value that has no JSON form
RECURSIVE JsonSerializable(_)
JsonSerializable(v) ==
    IF v.type = "list" THEN \A i \in 1..Len(v.elems) : JsonSerializable(v.elems[i])
    ELSE IF v.type = "dict"
         THEN \A i \in 1..Len(v.items) : JsonSerializable(v.items[i][2])
    ELSE v.type \in {"NoneType", "int", "float", "str"}

(***************************************************************************)
(* str.split and str.strip.                                                *)
(***************************************************************************)
\* s.split(d) for a one-character d: "" splits to [""]
RECURSIVE Split(_, _)
Split(s, d) ==
    LET at == {i \in 1..Len(s) : s[i] = d}
    IN  IF at = {} THEN <<s>>
        ELSE <<SubSeq(s, 1, Min(at) - 1)>>
             \o Split(SubSeq(s, Min(at) + 1, Len(s)), d)

\* s.strip()
Strip(s) ==
    LET keep == {i \in 1..Len(s) : s[i] \notin WHITESPACE}
    IN  IF keep = {} THEN <<>>
        ELSE SubSeq(s, Min(keep), CHOOSE j \in keep : \A k \in keep : k <= j)

(***************************************************************************)
(* A DataFrame: column names and rows of cells (Python scalars).           *)
(***************************************************************************)
DataFrame(cols, rows) == [columns |-> cols, rows |-> rows]

\* one record of df.to_dict("records"): a dict built column by column
RECURSIVE RowDict(_, _, _)
RowDict(cols, row, acc) ==
    IF cols = <<>> THEN acc
    ELSE RowDict(Tail(cols), Tail(row), DictSet(acc, Head(cols), Head(row)))

\* df.to_dict("records")
to_dict_records(df) ==
    PyList([i \in 1..Len(df.rows) |-> PyDict(RowDict(df.columns, df.rows[i], <<>>))])

(***************************************************************************)
(* pd.read_csv(io.StringIO(text), sep=None, engine='python'): the python   *)
(* parser sniffs the delimiter from the first line with csv.Sniffer, reads *)
(* that line as the header and every further line as a row.                *)
(***************************************************************************)
\* ord(c) for the characters of the model's texts
CharCode(c) ==
    CASE c = TAB -> 9 [] c = NL -> 10 [] c = SP -> 32 [] c = QT -> 34
      [] c = "," -> 44 [] c = "1" -> 49 [] c = ":" -> 58 [] c = ";" -> 59
      [] c = "[" -> 91 [] c = "]" -> 93 [] c = "a" -> 97 [] c = "b" -> 98
      [] c = "{" -> 123 [] c = "}" -> 125

Count(s, c) == Cardinality({i \in 1..Len(s) : s[i] = c})

\* csv.Sniffer.preferred
preferred == <<",", TAB, ";", SP, ":">>

\* csv.Sniffer._guess_delimiter on a one-line sample without quotes: every
\* character of the line is a candidate; a single candidate wins, else the
\* first preferred one, else the most frequent (ties: the greatest code)
GuessDelimiter(line) ==
    LET cands == {line[i] : i \in 1..Len(line)}
        pref == {i \in 1..Len(preferred) : preferred[i] \in cands}
    IN  IF Cardinality(cands) = 1 THEN CHOOSE c \in cands : TRUE
        ELSE IF pref # {} THEN preferred[Min(pref)]
        ELSE CHOOSE c \in cands : \A e \in cands :
                \/ Count(line, e) < Count(line, c)
                \/ Count(line, e) = Count(line, c) /\ CharCode(e) <= CharCode(c)

NoDelimiter == "no delimiter"

\* csv.Sniffer().sniff(first line): the delimiters it may return, NoDelimiter
\* standing for csv.Error("Could not determine delimiter").  With a quote in
\* the line the sniffer's quote patterns decide; they are not modelled, and
\* any character of the line, or the error, is taken as possible.
Sniff(line) ==
    IF line = <<>> THEN {NoDelimiter}
    ELSE IF \E i \in 1..Len(line) : line[i] = QT
         THEN {NoDelimiter} \cup {line[i] : i \in 1..Len(line)}
    ELSE {GuessDelimiter(line)}

\* the header names: an empty name becomes "Unnamed: i", a repeated name
\* gets the suffix ".k" (no name of the model's texts holds a '.')
ColumnName(header, i) ==
    LET base == IF header[i] = <<>>
                THEN <<"U", "n", "n", "a", "m", "e", "d", ":", SP>> \o IntToStr(i - 1)
                ELSE header[i]
        seen == Cardinality({j \in 1..(i - 1) : header[j] = header[i]})
    IN  IF header[i] = <<>> \/ seen = 0 THEN base
        ELSE base \o <<".">> \o IntToStr(seen)

\* csv.reader on one line (quoting not modelled): an empty line has no field
Fields(line, d) == IF line = <<>> THEN <<>> ELSE Split(line, d)

\* PythonParser._remove_empty_lines keeps a line with several fields, or
\* with one field that is not blank
NotEmptyLine(fields) ==
    Len(fields) > 1 \/ (Len(fields) = 1 /\ Strip(fields[1]) # <<>>)

\* a cell that reads as an integer
IsIntText(t) ==
    LET u == Strip(t)
    IN  /\ u # <<>>
        /\ NumberEnd(u, 1) = Len(u) + 1

\* the cell of row r under column j, extra leading fields being the index;
\* a short row is padded
CellText(r, j, extra) == IF j + extra <= Len(r) THEN r[j + extra] ELSE <<>>

\* dtype inference of one column, then the Python scalar of one of its cells:
\* an empty cell is NaN; an all-integer column is int, or float beside a NaN
CellValue(data, i, j, extra) ==
    LET col == [k \in 1..Len(data) |-> CellText(data[k], j, extra)]
        present == {k \in 1..Len(col) : col[k] # <<>>}
        numeric == \A k \in present : IsIntText(col[k])
        t == col[i]
    IN  IF t = <<>> THEN PyNaN
        ELSE IF ~numeric THEN PyStr(t)
        ELSE IF present = 1..Len(col) THEN PyInt(StrToInt(Strip(t)))
        ELSE PyFloat(StrToInt(Strip(t)))

CsvRaised == [raised |-> TRUE, df |-> DataFrame(<<>>, <<>>)]
CsvReturned(df) == [raised |-> FALSE, df |-> df]

\* the table read with delimiter d: header, rows, implicit index columns
\* (PythonParser._get_index_name), and ParserError for a row that is too long
ReadTable(text, d) ==
    LET lines == Split(text, NL)
        header == Split(lines[1], d)
        ncols == Len(header)
        names == [j \in 1..ncols |-> ColumnName(header, j)]
        rows == SelectSeq([k \in 1..(Len(lines) - 1) |-> Fields(lines[k + 1], d)],
                          NotEmptyLine)
        indexNamesRow == Len(rows) >= 2 /\ Len(rows[2]) = Len(rows[1]) + ncols
        data == IF indexNamesRow THEN Tail(rows) ELSE rows
        extra == IF indexNamesRow THEN Len(rows[1])
                 ELSE IF rows # <<>> /\ Len(rows[1]) > ncols THEN Len(rows[1]) - ncols
                 ELSE 0
    IN  IF \E k \in 1..Len(data) : Len(data[k]) > ncols + extra THEN CsvRaised
        ELSE CsvReturned(DataFrame(names,
                [i \in 1..Len(data) |->
                    [j \in 1..ncols |-> CellValue(data, i, j, extra)]]))

\* every outcome read_csv may have on the text
read_csv(text) ==
    {IF d = NoDelimiter THEN CsvRaised ELSE ReadTable(text, d) :
        d \in Sniff(Split(text, NL)[1])}

(***************************************************************************)
(* parse_lead_data: JSON, then a delimited table, then one record a line.  *)
(***************************************************************************)
\* the key of a line record
INPUT_KEY == <<"i", "n", "p", "u", "t">>

NonBlank(line) == line # <<>>

\* the innermost except: the stripped non-empty lines, one record each
line_records(input_text) ==
    LET parts == Split(input_text, NL)
        lines == SelectSeq([i \in 1..Len(parts) |-> Strip(parts[i])], NonBlank)
    IN  PyList([i \in 1..Len(lines) |-> PyDict(<<<<INPUT_KEY, PyStr(lines[i])>>>>)])

\* what parse_lead_data hands back: a return value, or an exception that left
\* it; tier records which of the three attempts produced the value
ParseResult(r, t, v) == [raised |-> r, tier |-> t, value |-> v]

\* read_csv was not reached
CsvNotCalled == [raised |-> FALSE, df |-> DataFrame(<<"not called">>, <<>>)]

\* the outcomes of read_csv parse_lead_data can meet on this text
CsvOutcomes(input_text) ==
    IF json_loads(input_text).raised THEN read_csv(input_text) ELSE {CsvNotCalled}

\* a parser whose inner handler is missing: a read_csv error leaves the function
parse_lead_data_no_inner_except(input_text, csv) ==
    LET data == json_loads(input_text)
    IN  IF ~data.raised
        THEN ParseResult(FALSE, 1,
                 IF IsList(data.value) THEN data.value ELSE PyList(<<data.value>>))
        ELSE IF ~csv.raised THEN ParseResult(FALSE, 2, to_dict_records(csv.df))
        ELSE ParseResult(TRUE, 2, PyNone)

\* a parser that wraps whatever json.loads returns
parse_lead_data_always_wraps(input_text, csv) ==
    LET data == json_loads(input_text)
    IN  IF ~data.raised THEN ParseResult(FALSE, 1, PyList(<<data.value>>))
        ELSE IF ~csv.raised THEN ParseResult(FALSE, 2, to_dict_records(csv.df))
        ELSE ParseResult(FALSE, 3, line_records(input_text))

\* parse_lead_data(input_text), csv being the outcome of the read_csv call
parse_lead_data(input_text, csv) ==
    LET data == json_loads(input_text)
    IN  IF ~data.raised
        THEN ParseResult(FALSE, 1,
                 IF IsList(data.value) THEN data.value ELSE PyList(<<data.value>>))
        ELSE IF ~csv.raised THEN ParseResult(FALSE, 2, to_dict_records(csv.df))
        ELSE ParseResult(FALSE, 3, line_records(input_text))

(***************************************************************************)
(* process_leads: the scoring prompt.  The prompt is a sequence of pieces, *)
(* a piece being one character or one stretch of the fixed text.           *)
(***************************************************************************)
\* the f-string up to the record count
PROMPT_HEAD == "You are a marketing genius ... The current lead count is: "
\* the f-string from the record count to the start marker
PROMPT_RULES == ". Ensure the following: ... without any additional commentary or information."
LEAD_DATA_START == "<Lead Data>"
LEAD_DATA_END == "</Lead Data>"

\* what process_leads hands back: the prompt, or the TypeError of json.dumps
PromptRaised == [raised |-> TRUE, prompt |-> <<>>]
PromptReturned(p) == [raised |-> FALSE, prompt |-> p]

\* a prompt builder that embeds only the first record
process_leads_first_only(df_) ==
    LET leads_data == to_dict_records(df_)
        sample == PyList(IF leads_data.elems = <<>> THEN <<>> ELSE <<leads_data.elems[1]>>)
    IN  IF ~JsonSerializable(leads_data) THEN PromptRaised
        ELSE PromptReturned(
                <<NL, PROMPT_HEAD>> \o IntToStr(Len(leads_data.elems))
                \o <<PROMPT_RULES, NL, NL, LEAD_DATA_START, NL>>
                \o json_dumps(sample, PyInt(2))
                \o <<NL, LEAD_DATA_END, NL>>)

\* process_leads(df)
process_leads(df_) ==
    LET leads_data == to_dict_records(df_)
    IN  IF ~JsonSerializable(leads_data) THEN PromptRaised
        ELSE PromptReturned(
                <<NL, PROMPT_HEAD>> \o IntToStr(Len(leads_data.elems))
                \o <<PROMPT_RULES, NL, NL, LEAD_DATA_START, NL>>
                \o json_dumps(leads_data, PyInt(2))
                \o <<NL, LEAD_DATA_END, NL>>)

(***************************************************************************)
(* The Model Gateway: the three functions that call                        *)
(* client.chat.completions.create.  remote is what the remote call does:   *)
(* it returns a completion with some content, or it raises.                *)
(***************************************************************************)
PyBool(b) == [type |-> "bool", bool |-> b]

\* bool(v), as the if statements of main() take it
Truthy(v) ==
    IF v.type = "NoneType" THEN FALSE
    ELSE IF v.type = "bool" THEN v.bool
    ELSE IF v.type = "str" THEN v.chars # <<>>
    ELSE TRUE

RemoteReturns(content) == [ok |-> TRUE, content |-> content]
RemoteRaises == [ok |-> FALSE, content |-> PyNone]

\* the completions the service may send, the empty one among them, or a failure
RemoteOutcomes ==
    {RemoteReturns(PyStr(<<>>)), RemoteReturns(PyStr(<<"T">>)), RemoteRaises}

\* session_state["api_key"] before any validation, and after a failed one
UNSET == "<unset>"
NONE == "<None>"

Message(role, content) == [role |-> role, content |-> content]

\* one chat.completions.create request
Request(api_key, messages, max_tokens) ==
    [model |-> "gpt-4", api_key |-> api_key, messages |-> messages,
     max_tokens |-> max_tokens]

\* what a gateway function did: its return value or the exception that left
\* it, the requests it sent, the message list it was given (before) and that
\* list when it ended (after), and what the remote call did
Call(fn, ret, raised, requests, before, after, remote) ==
    [fn |-> fn, ret |-> ret, raised |-> raised, requests |-> requests,
     before |-> before, after |-> after, remote |-> remote]

\* OpenAI(api_key=None) raises inside the try, before any request
SentRequests(api_key, messages, max_tokens) ==
    IF api_key \in {UNSET, NONE} THEN <<>>
    ELSE <<Request(api_key, messages, max_tokens)>>

Failed(api_key, remote) == api_key \in {UNSET, NONE} \/ ~remote.ok

VALIDATION_MESSAGES ==
    <<Message("user", <<"Hello, can you confirm this API key is working?">>)>>

\* a validation whose handler is missing: the error leaves the function
validate_api_key_no_except(api_key, remote) ==
    Call("validate_api_key",
         IF Failed(api_key, remote) THEN PyNone ELSE PyBool(TRUE),
         Failed(api_key, remote),
         SentRequests(api_key, VALIDATION_MESSAGES, 10),
         VALIDATION_MESSAGES, VALIDATION_MESSAGES, remote)

\* validate_api_key(api_key)
validate_api_key(api_key, remote) ==
    Call("validate_api_key",
         PyBool(~Failed(api_key, remote)),
         FALSE,
         SentRequests(api_key, VALIDATION_MESSAGES, 10),
         VALIDATION_MESSAGES, VALIDATION_MESSAGES, remote)

\* a gateway that sends the request a second time when the first fails
get_openai_response_retries(messages, api_key, remote) ==
    Call("get_openai_response",
         IF Failed(api_key, remote) THEN PyNone ELSE remote.content,
         FALSE,
         IF Failed(api_key, remote)
         THEN SentRequests(api_key, messages, 4000) \o SentRequests(api_key, messages, 4000)
         ELSE SentRequests(api_key, messages, 4000),
         messages, messages, remote)

\* get_openai_response(messages, api_key)
get_openai_response(messages, api_key, remote) ==
    Call("get_openai_response",
         IF Failed(api_key, remote) THEN PyNone ELSE remote.content,
         FALSE,
         SentRequests(api_key, messages, 4000),
         messages, messages, remote)

DEFAULT_EMAIL_PROMPT == "You are an expert email copywriter ..."

\* the two messages generate_personalized_emails builds
EmailMessages(leads_data, system_prompt) ==
    <<Message("system", <<system_prompt>>),
      Message("user", <<"Generate personalized emails for:", NL>>
                      \o json_dumps(leads_data, PyInt(2)))>>

\* an email generator that ignores the prompt it is given
generate_personalized_emails_default_prompt(leads_data, api_key, email_system_prompt, remote) ==
    LET messages == EmailMessages(leads_data, DEFAULT_EMAIL_PROMPT)
    IN  Call("generate_personalized_emails",
             IF Failed(api_key, remote) THEN PyNone ELSE remote.content,
             FALSE,
             SentRequests(api_key, messages, 4000),
             messages, messages, remote)

\* generate_personalized_emails(leads_data, api_key, email_system_prompt)
generate_personalized_emails(leads_data, api_key, email_system_prompt, remote) ==
    LET messages == EmailMessages(leads_data, email_system_prompt)
    IN  Call("generate_personalized_emails",
             IF Failed(api_key, remote) THEN PyNone ELSE remote.content,
             FALSE,
             SentRequests(api_key, messages, 4000),
             messages, messages, remote)

(***************************************************************************)
(* State.                                                                  *)
(***************************************************************************)
VARIABLES
    \* st.session_state: api_key_valid, api_key, email_system_prompt, show_debug
    session_state,
    \* the values of the widgets on the page: the key field, the tool radio,
    \* the uploaded file, the prompt editor and the lead text area
    widgets,
    \* what the last run of the script did: the widget interaction that
    \* triggered it, the gateway functions it called, the branch it showed,
    \* the session state it started with
    last_run,
    \* history: the last validation that reached the gateway, the last text
    \* stored by Save Changes
    last_validation, last_saved,
    \* one call of parse_lead_data: its argument, the value the argument was
    \* serialized from (if any), the outcome of read_csv, what it handed back
    input_text, source, csv, result,
    \* one call of process_leads: its argument and the prompt it returned
    df, prompt,
    \* where the function under check stands
    pc

vars == <<session_state, widgets, last_run, last_validation, last_saved,
          input_text, source, csv, result, df, prompt, pc>>

sessionVars == <<session_state, widgets, last_run, last_validation, last_saved>>
parseVars == <<input_text, source, csv, result>>
promptVars == <<df, prompt>>
\* what a run of the script leaves alone
funcVars == <<input_text, source, csv, result, df, prompt, pc>>

(***************************************************************************)
(* The session: main() and the __main__ block, one action per widget       *)
(* interaction, each a whole run of the script.                            *)
(***************************************************************************)
LEADS_PAGE == "Generate Leads"
EMAILS_PAGE == "Generate Emails"

\* the keys the operator may type; the empty field among them
ApiKeys == {"sk-1", "sk-2"}
\* the texts the operator may put in the prompt editor
PromptTexts == {DEFAULT_EMAIL_PROMPT, "Be brief.", "Be formal."}

NoFile == [present |-> FALSE, readable |-> FALSE, df |-> DataFrame(<<>>, <<>>)]
File(d) == [present |-> TRUE, readable |-> TRUE, df |-> d]
\* a file pandas cannot read
BadFile == [present |-> TRUE, readable |-> FALSE, df |-> DataFrame(<<>>, <<>>)]

\* the files the operator may upload
UploadedFiles ==
    {BadFile,
     File(DataFrame(<<<<"a">>>>, <<>>)),
     File(DataFrame(<<<<"a">>>>, <<<<PyTimestamp>>>>)),
     File(DataFrame(<<<<"a">>, <<"b">>>>,
                    <<<<PyStr(<<"a">>), PyInt(1)>>, <<PyStr(<<"b">>), PyNaN>>>>))}

\* the texts the operator may put in the lead text area
LeadInputs ==
    {<<>>, <<SP, NL>>,
     <<"[", "{", QT, "a", QT, ":", SP, "1", "}", "]">>,
     <<"1">>,
     <<"a", ",", "b", NL, "1", ",", "1">>,
     <<"a", SP, NL>>}

\* the prompt editor while it is not on the page
NotRendered == "<not rendered>"

\* last_saved before any Save Changes
NeverSaved == "<never saved>"

\* the record of a run; before is the session state the run started with
Run(action, calls, branch) ==
    [action |-> action, calls |-> calls, branch |-> branch, before |-> session_state]
NoRun(action) == Run(action, <<>>, "none")

NoValidation == [reached |-> FALSE, api_key |-> UNSET, ok |-> FALSE]
Validation(k, ok) == [reached |-> TRUE, api_key |-> k, ok |-> ok]

\* lines 120-124 and 240-241: the session state a first run leaves
SessionInit ==
    /\ session_state = [api_key_valid |-> FALSE, api_key |-> UNSET,
                        email_system_prompt |-> DEFAULT_EMAIL_PROMPT,
                        show_debug |-> FALSE]
    /\ widgets = [api_key |-> "", page |-> LEADS_PAGE, uploaded_file |-> NoFile,
                  temp_prompt |-> NotRendered, lead_input |-> <<>>]
    /\ last_run = NoRun("start")
    /\ last_validation = NoValidation
    /\ last_saved = NeverSaved

LeadsShown(ss, w) == ss.api_key_valid /\ w.page = LEADS_PAGE
EmailsShown(ss, w) == ss.api_key_valid /\ w.page = EMAILS_PAGE
EditorShown(ss, w) == EmailsShown(ss, w) /\ ss.show_debug

\* the widgets a run of the script leaves on the page: a widget the run
\* does not create loses its value, and the prompt editor is created with
\* the stored prompt as its value (lines 143-213); old is the session state
\* the run started with
Render(old, ss, w) ==
    [api_key |-> w.api_key,
     page |-> w.page,
     uploaded_file |-> IF LeadsShown(ss, w) THEN w.uploaded_file ELSE NoFile,
     temp_prompt |-> IF ~EditorShown(ss, w) THEN NotRendered
                     ELSE IF w.temp_prompt = NotRendered THEN old.email_system_prompt
                     ELSE w.temp_prompt,
     lead_input |-> IF EmailsShown(ss, w) THEN w.lead_input ELSE <<>>]

\* a handler that forgets the else branch of the validation
StoreValidation_no_else(ss, api_key, valid) ==
    IF valid
    THEN [ss EXCEPT !.api_key_valid = TRUE, !.api_key = api_key]
    ELSE ss

\* lines 132-138: what the Validate handler stores
StoreValidation(ss, api_key, valid) ==
    IF valid
    THEN [ss EXCEPT !.api_key_valid = TRUE, !.api_key = api_key]
    ELSE [ss EXCEPT !.api_key_valid = FALSE, !.api_key = NONE]

\* line 128: the operator types into the key field
EnterApiKey(k) ==
    /\ k # widgets.api_key
    /\ widgets' = Render(session_state, session_state, [widgets EXCEPT !.api_key = k])
    /\ last_run' = NoRun("EnterApiKey")
    /\ UNCHANGED <<session_state, last_validation, last_saved, funcVars>>

\* lines 130-138: Validate API Key with an empty key field does nothing
ValidateEmpty ==
    /\ widgets.api_key = ""
    /\ last_run' = NoRun("Validate")
    /\ UNCHANGED <<session_state, widgets, last_validation, last_saved, funcVars>>

\* lines 130-138: Validate API Key with a key in the field
ValidateKey(remote) ==
    /\ widgets.api_key # ""
    /\ LET call == validate_api_key(widgets.api_key, remote)
           ss == StoreValidation(session_state, widgets.api_key, Truthy(call.ret))
       IN  /\ session_state' = ss
           /\ widgets' = Render(session_state, ss, widgets)
           /\ last_run' = Run("Validate", <<call>>,
                              IF Truthy(call.ret) THEN "success" ELSE "failure")
           /\ last_validation' = Validation(widgets.api_key, remote.ok)
    /\ UNCHANGED <<last_saved, funcVars>>

\* line 141: the operator picks a tool
SelectPage(p) ==
    /\ p # widgets.page
    /\ widgets' = Render(session_state, session_state, [widgets EXCEPT !.page = p])
    /\ last_run' = NoRun("SelectPage")
    /\ UNCHANGED <<session_state, last_validation, last_saved, funcVars>>

\* lines 149-162, 186-187: the operator uploads a file
UploadFile(f) ==
    /\ LeadsShown(session_state, widgets)
    /\ f # widgets.uploaded_file
    /\ widgets' = [widgets EXCEPT !.uploaded_file = f]
    /\ last_run' = NoRun("UploadFile")
    /\ UNCHANGED <<session_state, last_validation, last_saved, funcVars>>

LEAD_SCORING_SYSTEM ==
    "You are a lead scoring expert specializing in analyzing potential course participants."

\* lines 164-187: Generate Leads; the button is on the page once a file is
\* read.  An error of process_leads is caught by the handler at line 186.
GenerateLeads(remote) ==
    /\ LeadsShown(session_state, widgets)
    /\ widgets.uploaded_file.present /\ widgets.uploaded_file.readable
    /\ LET built == process_leads(widgets.uploaded_file.df)
           messages == <<Message("system", <<LEAD_SCORING_SYSTEM>>),
                         Message("user", built.prompt)>>
           call == get_openai_response(messages, session_state.api_key, remote)
       IN  last_run' = IF built.raised
                       THEN Run("GenerateLeads", <<>>, "error processing file")
                       ELSE Run("GenerateLeads", <<call>>,
                                IF Truthy(call.ret) THEN "success" ELSE "failure")
    /\ UNCHANGED <<session_state, widgets, last_validation, last_saved, funcVars>>

\* lines 196-197: Debug shows or hides the prompt editor
ToggleDebug ==
    /\ EmailsShown(session_state, widgets)
    /\ LET ss == [session_state EXCEPT !.show_debug = ~session_state.show_debug]
       IN  /\ session_state' = ss
           /\ widgets' = Render(session_state, ss, widgets)
    /\ last_run' = NoRun("ToggleDebug")
    /\ UNCHANGED <<last_validation, last_saved, funcVars>>

\* lines 200-204: the operator edits the prompt in the editor
EditPrompt(t) ==
    /\ EditorShown(session_state, widgets)
    /\ t # widgets.temp_prompt
    /\ widgets' = [widgets EXCEPT !.temp_prompt = t]
    /\ last_run' = NoRun("EditPrompt")
    /\ UNCHANGED <<session_state, last_validation, last_saved, funcVars>>

\* lines 205-207: Save Changes stores the editor's text
SaveChanges ==
    /\ EditorShown(session_state, widgets)
    /\ session_state' = [session_state EXCEPT !.email_system_prompt = widgets.temp_prompt]
    /\ last_saved' = widgets.temp_prompt
    /\ last_run' = NoRun("SaveChanges")
    /\ UNCHANGED <<widgets, last_validation, funcVars>>

\* lines 209-213: the operator edits the lead text area
EditLeadInput(t) ==
    /\ EmailsShown(session_state, widgets)
    /\ t # widgets.lead_input
    /\ widgets' = [widgets EXCEPT !.lead_input = t]
    /\ last_run' = NoRun("EditLeadInput")
    /\ UNCHANGED <<session_state, last_validation, last_saved, funcVars>>

\* lines 215-216, 236-237: Generate Emails with a blank lead text area
GenerateEmailsBlank ==
    /\ EmailsShown(session_state, widgets)
    /\ Strip(widgets.lead_input) = <<>>
    /\ last_run' = Run("GenerateEmails", <<>>, "no input")
    /\ UNCHANGED <<session_state, widgets, last_validation, last_saved, funcVars>>

\* lines 215-235: Generate Emails with lead text
GenerateEmails(remote) ==
    /\ EmailsShown(session_state, widgets)
    /\ Strip(widgets.lead_input) # <<>>
    /\ \E c \in CsvOutcomes(widgets.lead_input) :
         LET leads_data == parse_lead_data(widgets.lead_input, c).value
             call == generate_personalized_emails(leads_data, session_state.api_key,
                         session_state.email_system_prompt, remote)
         IN  last_run' = Run("GenerateEmails", <<call>>,
                             IF Truthy(call.ret) THEN "success" ELSE "nothing shown")
    /\ UNCHANGED <<session_state, widgets, last_validation, last_saved, funcVars>>

(***************************************************************************)
(* Specification of the session.                                           *)
(***************************************************************************)
\* the function variables while no function is under check
ParseIdle ==
    /\ input_text = <<>>
    /\ source = PyNone
    /\ csv = CsvNotCalled
    /\ result = ParseResult(FALSE, 0, PyNone)

PromptIdle ==
    /\ df = DataFrame(<<>>, <<>>)
    /\ prompt = PromptReturned(<<>>)

Init ==
    /\ SessionInit
    /\ ParseIdle
    /\ PromptIdle
    /\ pc = "session"

Next ==
    \/ \E k \in ApiKeys \cup {""} : EnterApiKey(k)
    \/ ValidateEmpty
    \/ \E remote \in RemoteOutcomes : ValidateKey(remote)
    \/ \E p \in {LEADS_PAGE, EMAILS_PAGE} : SelectPage(p)
    \/ \E f \in UploadedFiles \cup {NoFile} : UploadFile(f)
    \/ \E remote \in RemoteOutcomes : GenerateLeads(remote)
    \/ ToggleDebug
    \/ \E t \in PromptTexts : EditPrompt(t)
    \/ SaveChanges
    \/ \E t \in LeadInputs : EditLeadInput(t)
    \/ GenerateEmailsBlank
    \/ \E remote \in RemoteOutcomes : GenerateEmails(remote)

Spec == Init /\ [][Next]_vars

(***************************************************************************)
(* Specification of parse_lead_data: every text it may be given, then the  *)
(* call.                                                                   *)
(***************************************************************************)
\* the characters of arbitrary texts
Alphabet == {"[", "]", "{", "}", ":", ",", QT, SP, NL, TAB, "a", "1"}

ArbitraryTexts == SeqsUpTo(Alphabet, MaxLen)

\* mappings of at most two fields
Mappings ==
    LET Values == {PyInt(1), PyStr(<<"a">>)}
    IN  {PyDict(<<>>)}
        \cup {PyDict(<<<<<<k>>, v>>>>) : k \in {"a", "b"}, v \in Values}
        \cup {PyDict(<<<<<<k[1]>>, v>>, <<<<k[2]>>, w>>>>) :
                k \in {<<"a", "b">>, <<"b", "a">>}, v \in Values, w \in Values}

\* sequences of mappings
MappingSeqs == {PyList(ms) : ms \in SeqsUpTo(Mappings, MaxRecords)}

\* json.dumps may be called with or without indent
Indents == {PyNone, PyInt(2)}

\* a serialized sequence of mappings that lost its closing bracket
Truncated(text) == SubSeq(text, 1, Len(text) - 1)

InitParser ==
    /\ SessionInit
    /\ PromptIdle
    /\ pc = "call parse_lead_data"
    /\ csv = CsvNotCalled
    /\ result = ParseResult(FALSE, 0, PyNone)
    /\ \/ /\ input_text \in ArbitraryTexts
          /\ source = PyNone
       \/ /\ source \in MappingSeqs \cup Mappings
          /\ \E indent \in Indents : input_text = json_dumps(source, indent)
       \/ /\ source = PyNone
          /\ \E v \in MappingSeqs : input_text = Truncated(json_dumps(v, PyNone))

\* lines 82-92: the call
ParseLeadData ==
    /\ pc = "call parse_lead_data"
    /\ \E c \in CsvOutcomes(input_text) :
         /\ csv' = c
         /\ result' = parse_lead_data(input_text, c)
    /\ pc' = "parsed"
    /\ UNCHANGED <<sessionVars, input_text, source, promptVars>>

NextParser == ParseLeadData

SpecParser == InitParser /\ [][NextParser]_vars

(***************************************************************************)
(* Specification of process_leads: every DataFrame it may be given, then   *)
(* the call.                                                               *)
(***************************************************************************)
\* the cells of an uploaded table
Cells == {PyInt(1), PyStr(<<"a">>), PyNaN, PyTimestamp}

DataFrames ==
    {DataFrame(cols, rows) :
        cols \in {<<<<"a">>>>, <<<<"a">>, <<"b">>>>},
        rows \in SeqsUpTo(SeqsUpTo(Cells, 2), MaxRecords)}

InitPrompt ==
    /\ SessionInit
    /\ ParseIdle
    /\ pc = "call process_leads"
    /\ prompt = PromptReturned(<<>>)
    /\ df \in {d \in DataFrames :
                 \A i \in 1..Len(d.rows) : Len(d.rows[i]) = Len(d.columns)}

\* lines 44-80: the call
ProcessLeads ==
    /\ pc = "call process_leads"
    /\ prompt' = process_leads(df)
    /\ pc' = "built"
    /\ UNCHANGED <<sessionVars, parseVars, df>>

NextPrompt == ProcessLeads

SpecPrompt == InitPrompt /\ [][NextPrompt]_vars

(***************************************************************************)
(* Properties.                                                             *)
(***************************************************************************)
Parsed == pc = "parsed"

\* the first of the three attempts that does not fail on this call
FirstTierThatWorks ==
    IF ~json_loads(input_text).raised THEN 1 ELSE IF ~csv.raised THEN 2 ELSE 3

\* C1: parse_lead_data returns a list for every text and lets no parse
\* exception out; the attempts are tried in the order JSON, table, lines, a
\* failed attempt falls through to the next, and the result is that of the
\* first attempt that does not fail.
C1_ParserNeverRaises ==
    Parsed =>
        /\ ~result.raised
        /\ IsList(result.value)
        /\ result.tier = FirstTierThatWorks
        /\ result.tier = 1 =>
              result.value \in {json_loads(input_text).value,
                                PyList(<<json_loads(input_text).value>>)}
        /\ result.tier = 2 => result.value = to_dict_records(csv.df)
        /\ result.tier = 3 => result.value = line_records(input_text)

\* both stronger attempts failed and the lines attempt produced records
C1_Witness ==
    /\ Parsed
    /\ json_loads(input_text).raised
    /\ csv.raised
    /\ result.tier = 3
    /\ result.value.elems # <<>>

\* C2: when the remote call fails, get_openai_response and
\* generate_personalized_emails return None and validate_api_key returns
\* False; no exception leaves the function and the message list it was given
\* is unchanged.
C2_FailureIsNoResult ==
    \A i \in 1..Len(last_run.calls) :
        LET call == last_run.calls[i]
        IN  ~call.remote.ok =>
                /\ ~call.raised
                /\ call.ret = IF call.fn = "validate_api_key"
                              THEN PyBool(FALSE) ELSE PyNone
                /\ call.after = call.before

\* a failed validation that sent its request
C2_Witness ==
    /\ last_run.action = "Validate"
    /\ last_run.calls # <<>>
    /\ ~last_run.calls[1].remote.ok
    /\ last_run.calls[1].requests # <<>>

GenerateActions == {"GenerateLeads", "GenerateEmails"}

\* C3, as claimed: Generate Leads and Generate Emails take the success branch
\* exactly when the gateway returned a result, the empty string included, and
\* otherwise only when it returned None.
C3_BranchOnSignalAlone ==
    (last_run.action \in GenerateActions /\ last_run.calls # <<>>) =>
        (last_run.branch = "success" <=> last_run.calls[1].ret # PyNone)

\* the requests the last run sent
RECURSIVE RequestsOf(_)
RequestsOf(calls) ==
    IF calls = <<>> THEN <<>> ELSE Head(calls).requests \o RequestsOf(Tail(calls))

ButtonActions == {"Validate", "GenerateLeads", "GenerateEmails"}

\* C4, as claimed: every Validate, Generate Leads and Generate Emails action
\* sends exactly one request to the gateway.
C4_ExactlyOneCall ==
    last_run.action \in ButtonActions => Len(RequestsOf(last_run.calls)) = 1

\* C4, amended: every such action sends at most one request, also after a
\* failure; it sends exactly one unless it stops before the gateway: Validate
\* with an empty key field, Generate Emails with blank lead text, Generate
\* Leads whose prompt cannot be built.
C4_AtMostOneCall ==
    last_run.action \in ButtonActions =>
        /\ Len(RequestsOf(last_run.calls)) <= 1
        /\ Len(RequestsOf(last_run.calls)) = 0 <=>
              \/ last_run.action = "Validate" /\ widgets.api_key = ""
              \/ last_run.action = "GenerateEmails" /\ Strip(widgets.lead_input) = <<>>
              \/ /\ last_run.action = "GenerateLeads"
                 /\ ~JsonSerializable(to_dict_records(widgets.uploaded_file.df))

\* a failed Generate Leads call, which sent its one request
C4_Witness ==
    /\ last_run.action = "GenerateLeads"
    /\ last_run.calls # <<>>
    /\ ~last_run.calls[1].remote.ok
    /\ Len(RequestsOf(last_run.calls)) = 1

\* the value source was serialized from, as parse_lead_data should return it
Expected(v) == IF IsList(v) THEN v ELSE PyList(<<v>>)

\* C5: for a text that is a serialized sequence of mappings parse_lead_data
\* returns the mappings, as many, with the same fields, in the same order;
\* for a serialized single mapping it returns that mapping alone in a list.
C5_RoundTrip ==
    (Parsed /\ source # PyNone) =>
        /\ ~result.raised
        /\ IsList(result.value)
        /\ Len(result.value.elems) = Len(Expected(source).elems)
        /\ \A i \in 1..Len(result.value.elems) :
              result.value.elems[i] = Expected(source).elems[i]

\* two different mappings of two fields each, serialized with indentation
C5_Witness ==
    /\ Parsed
    /\ IsList(source)
    /\ Len(source.elems) = 2
    /\ source.elems[1] # source.elems[2]
    /\ Len(source.elems[1].items) = 2
    /\ \E i \in 1..Len(input_text) : input_text[i] = NL
    /\ result.value = source

\* C6, as claimed: for an empty or whitespace-only text parse_lead_data
\* returns the empty list, from the lines attempt, and raises nothing.
C6_BlankGivesEmpty ==
    (Parsed /\ Strip(input_text) = <<>>) =>
        /\ ~result.raised
        /\ result.value = PyList(<<>>)
        /\ result.tier = 3

Built == pc = "built" /\ ~prompt.raised

\* where a piece stands in the prompt
IndexOf(piece) == CHOOSE i \in 1..Len(prompt.prompt) : prompt.prompt[i] = piece

Between(a, b) == SubSeq(prompt.prompt, IndexOf(a) + 1, IndexOf(b) - 1)

\* record i of the DataFrame, as a mapping from column name to cell
Record(i) == PyDict([j \in 1..Len(df.columns) |-> <<df.columns[j], df.rows[i][j]>>])

\* text t occurs in s from position k on
OccursAt(t, s, k) == k + Len(t) - 1 <= Len(s) /\ SubSeq(s, k, k + Len(t) - 1) = t

\* C7: the prompt process_leads builds states the number of records of the
\* collection, and between its start and end markers holds the serialized
\* form of every record, in order and none dropped: the text between the
\* markers reads back as exactly the records.
C7_PromptEmbedsAll ==
    Built =>
        /\ StrToInt(Between(PROMPT_HEAD, PROMPT_RULES)) = Len(df.rows)
        /\ IndexOf(LEAD_DATA_START) < IndexOf(LEAD_DATA_END)
        /\ LET body == Between(LEAD_DATA_START, LEAD_DATA_END)
               back == json_loads(body)
           IN  /\ ~back.raised
               /\ IsList(back.value)
               /\ Len(back.value.elems) = Len(df.rows)
               /\ \A i \in 1..Len(df.rows) :
                     /\ back.value.elems[i] = Record(i)
                     /\ \E k \in 1..Len(body) :
                           OccursAt(dumps_level(Record(i), PyInt(2), 1), body, k)

\* a prompt built from two different records
C7_Witness ==
    /\ Built
    /\ Len(df.rows) = 2
    /\ Len(df.columns) = 2
    /\ df.rows[1] # df.rows[2]

\* the prompt the session holds by its history: the default until Save
\* Changes stored a text, then the text stored last
CurrentConfig == IF last_saved = NeverSaved THEN DEFAULT_EMAIL_PROMPT ELSE last_saved

\* C8: every email request carries two messages, system then user, the
\* system message being the session's email prompt: the default until a text
\* is saved, then the text saved last; nothing but Save Changes alters it.
C8_EmailPromptIsConfig ==
    /\ session_state.email_system_prompt = CurrentConfig
    /\ last_run.action # "SaveChanges" =>
          session_state.email_system_prompt = last_run.before.email_system_prompt
    /\ \A i \in 1..Len(last_run.calls) :
          last_run.calls[i].fn = "generate_personalized_emails" =>
              \A r \in 1..Len(last_run.calls[i].requests) :
                  LET messages == last_run.calls[i].requests[r].messages
                  IN  /\ Len(messages) = 2
                      /\ messages[1].role = "system"
                      /\ messages[2].role = "user"
                      /\ messages[1].content = <<CurrentConfig>>

\* an email request sent after a text other than the default was saved
C8_Witness ==
    /\ last_run.action = "GenerateEmails"
    /\ last_run.calls # <<>>
    /\ last_run.calls[1].requests # <<>>
    /\ last_saved = "Be brief."
    /\ last_run.calls[1].requests[1].messages[1].content = <<"Be brief.">>

\* C9, as claimed: every element of the list parse_lead_data returns is a
\* mapping, whichever attempt produced it.
C9_ElementsAreMappings ==
    Parsed => \A i \in 1..Len(result.value.elems) : IsDict(result.value.elems[i])

\* C10: api_key_valid holds only if the stored key is the key of the last
\* validation that reached the gateway and that validation succeeded; a
\* failed one leaves api_key_valid false and the stored key None, a Validate
\* click with an empty key field leaves both as they were; Generate Leads and
\* Generate Emails call the gateway only while api_key_valid holds, and with
\* the stored key.
C10_ValidKeyIsLastValidated ==
    /\ (last_run.action = "Validate" /\ widgets.api_key = "") =>
          /\ session_state.api_key_valid = last_run.before.api_key_valid
          /\ session_state.api_key = last_run.before.api_key
    /\ session_state.api_key_valid =>
          /\ last_validation.reached
          /\ last_validation.ok
          /\ session_state.api_key = last_validation.api_key
    /\ (last_validation.reached /\ ~last_validation.ok) =>
          /\ ~session_state.api_key_valid
          /\ session_state.api_key = NONE
    /\ ~last_validation.reached =>
          /\ ~session_state.api_key_valid
          /\ session_state.api_key = UNSET
    /\ last_run.action \in GenerateActions =>
          \A i \in 1..Len(RequestsOf(last_run.calls)) :
              /\ session_state.api_key_valid
              /\ RequestsOf(last_run.calls)[i].api_key = session_state.api_key

\* a Generate Emails request sent with the second of two validated keys
C10_Witness ==
    /\ last_run.action = "GenerateEmails"
    /\ RequestsOf(last_run.calls) # <<>>
    /\ session_state.api_key = "sk-2"
    /\ RequestsOf(last_run.calls)[1].api_key = "sk-2"

=============================================================================
